---- MODULE Spec2Model ----
(***************************************************************************)
(* qaueue: the item records and the priority queue kept in Redis           *)
(* (src/qaueue/db.py).                                                     *)
(*                                                                         *)
(* The store is the Redis list 'qaueue_Q' (queue) and one hash per item    *)
(* (rec).  Of a hash the model keeps the status field, whether the url     *)
(* field (and with it the type field, which Item.update always writes      *)
(* together with url) is set, and the state field, in which the command    *)
(* layer (src/qaueue/views.py) keeps the status.  db.py reads the names of the hash fields    *)
(* from qaueue.constants; the model follows db.py's use of them            *)
(* (status, url, name, type, released_at as attributes of Item), also      *)
(* where constants.py names them otherwise (it has no fields.ITEM_ID and   *)
(* spells item_types.GITHUB_PUlL_REQUEST; it has a fields.VALUE that Item  *)
(* does not carry).                                                        *)
(*                                                                         *)
(* Spec       the db-layer calls run one at a time, each as one action.    *)
(* SpecQueue  the create / prioritize / remove workflow on a longer queue. *)
(* SpecCmd    the commands of views.py run one at a time.                  *)
(* SpecFail   Item.create and Item.remove on a store that can fail.        *)
(* SpecUrl    Item.create and Item.get by content key, id and index, and   *)
(*            Item.update of handles with and without a status.            *)
(* SpecId     item_id_from_url and Item.create by content key, with the    *)
(*            key and the id each handler got kept in its locals.          *)
(* SpecAdds   the add commands of views.py run by several handlers, and    *)
(*            remove_from_queue.                                           *)
(* SpecConc   Item.create run by several handlers, one store command per   *)
(*            step.                                                        *)
(* SpecMoves  prioritize, remove, items and add_to_queue run by several    *)
(*            handlers on a populated store.                               *)
(* SpecAssert add_to_queue, remove and prioritize run by several handlers, *)
(*            the transaction of add_to_queue one command per step.        *)
(* SpecMigrate the runs of the migration runner (src/migrate.py), which   *)
(*            can be interrupted at any point.                             *)
(* SpecCommands the calls of Commands.add (src/qaueue/command.py).         *)
(* SpecLua    the get_item_index script of src/qaueue/redis.py, one pass   *)
(*            of its loop per step; SpecLuaFair with the server running    *)
(*            a started script on.                                         *)
(***************************************************************************)
EXTENDS Integers, Sequences, FiniteSets, TLC

VARIABLES queue, rec, last, pc, loc, ncalls,
          latest_migration_timestamp, applied, cmd_data, cmd_default

\* what lives apart from the queue and the items: the key
\* 'latest_migration_timestamp' of the store with the timestamps of the
\* migrations whose pipeline has been executed, in the order of execution
\* (src/migrate.py), and Commands._data and Commands._default
\* (src/qaueue/command.py)
tools == <<latest_migration_timestamp, applied, cmd_data, cmd_default>>

vars == <<queue, rec, last, pc, loc, ncalls, tools>>

(***************************************************************************)
(* Bounds                                                                  *)
(***************************************************************************)
NumItems == 3
NumPending == 4
NumProcs == 2
MaxCalls == 3
MaxQueueLen == 4

Items == 1..NumItems
PendingItems == 1..NumPending
ConcItems == {1, 2}
CmdItems == {1, 2, 3}
Procs == 1..NumProcs
AllItems == Items \cup PendingItems \cup ConcItems \cup CmdItems \cup {1, 2, 3, 4}

(***************************************************************************)
(* Program constants                                                       *)
(***************************************************************************)
INITIAL == "queued"
COMPLETED == "released"
Statuses == {INITIAL, COMPLETED}

\* the statuses given to `/qaueue update`: any string is taken
CmdStatuses == {INITIAL, "integration", COMPLETED}

\* Python's None as the value of an index / of a string
NoIndex == -1
None == "None"

\* the command names and the functions given to Commands.add
CommandNames == {"list", "add", "help"}
NumFuncs == 2
Funcs == 1..NumFuncs
NoFunc == 0

\* no migration has run and no command is registered: the key
\* 'latest_migration_timestamp' is absent (read as 0), `_data = {}`,
\* `_default = None`
InitTools ==
  /\ latest_migration_timestamp = 0
  /\ applied = <<>>
  /\ cmd_data = [c \in CommandNames |-> NoFunc]
  /\ cmd_default = None

\* the hash of an item that has no key in the store
\* released_at: whether the hash carries the field constants.fields.RELEASED_AT
NoRec == [present |-> FALSE, status |-> None, url |-> FALSE, state |-> None,
          released_at |-> FALSE]

(***************************************************************************)
(* Redis commands on the list and on the hashes                            *)
(***************************************************************************)
LLen(q) == Len(q)

\* LINDEX: 0-based, negative indices count from the tail, nil out of range
LIndex(q, i) ==
  IF i >= 0 /\ i < Len(q) THEN q[i + 1]
  ELSE IF i < 0 /\ -i <= Len(q) THEN q[Len(q) + i + 1]
  ELSE NoIndex

\* mutant: LREM key 1 value, which removes the first occurrence only
LRem_First(q, v) ==
  IF \E k \in 1..Len(q) : q[k] = v
  THEN LET k == CHOOSE j \in 1..Len(q) : q[j] = v /\ \A i \in 1..(j - 1) : q[i] # v
       IN SubSeq(q, 1, k - 1) \o SubSeq(q, k + 1, Len(q))
  ELSE q

\* LREM key 0 value: removes every occurrence
LRem(q, v) == SelectSeq(q, LAMBDA x : x # v)

RPush(q, v) == Append(q, v)

LPush(q, v) == <<v>> \o q

FirstIndexOf(q, v) ==
  IF \E k \in 1..Len(q) : q[k] = v
  THEN (CHOOSE k \in 1..Len(q) : q[k] = v /\ \A j \in 1..(k - 1) : q[j] # v) - 1
  ELSE NoIndex

\* mutant: LINSERT key BEFORE pivot value
LInsert_Before(q, pivot, v) ==
  LET k == FirstIndexOf(q, pivot)
  IN IF k = NoIndex THEN q
     ELSE SubSeq(q, 1, k) \o <<v>> \o SubSeq(q, k + 1, Len(q))

\* LINSERT key AFTER pivot value: after the first pivot, nothing if no pivot
LInsert(q, pivot, v) ==
  LET k == FirstIndexOf(q, pivot)
  IN IF k = NoIndex THEN q
     ELSE SubSeq(q, 1, k + 1) \o <<v>> \o SubSeq(q, k + 2, Len(q))

Exists(r, id) == r[id].present

HSetStatus(r, id, s) ==
  [r EXCEPT ![id] = [present |-> TRUE, status |-> s, url |-> r[id].url,
                     state |-> r[id].state,
                     released_at |-> r[id].released_at]]

\* mutant: the HMSET writes the attributes that are None too
HMSet_NullOverwrites(r, id, status) ==
  [r EXCEPT ![id] = [present |-> TRUE, status |-> status, url |-> TRUE,
                     state |-> r[id].state,
                     released_at |-> r[id].released_at]]

\* HMSET of the non-None attributes of an Item: url and type are never None
\* on a constructed Item, status only when the caller left it out
HMSet(r, id, status) ==
  [r EXCEPT ![id] = [present |-> TRUE,
                     status |-> IF status # None THEN status ELSE r[id].status,
                     url |-> TRUE,
                     state |-> r[id].state,
                     released_at |-> r[id].released_at]]

\* HSET / HMSET of the field 'state', the field the command layer keeps the
\* status in (views.fields.STATE)
HSetState(r, id, s) ==
  [r EXCEPT ![id] = [present |-> TRUE, status |-> r[id].status, url |-> r[id].url,
                     state |-> s, released_at |-> r[id].released_at]]

Delete(r, id) == [r EXCEPT ![id] = NoRec]

(***************************************************************************)
(* Item and QAueueQueue, as sequences of store commands                    *)
(***************************************************************************)
\* QAueueQueue.item_priority: index of the first entry equal to the id
ItemPriority(q, id) == FirstIndexOf(q, id)

\* Item.get builds Item(**kwargs) from the hash: the constructor evaluates
\* item_id_from_url(url), which raises on a hash that has no url field
Loadable(r, id) == Exists(r, id) => r[id].url

\* QAueueQueue.items: Item.get of every entry; an entry without a hash
\* loads as None
ItemsRaises(q, r) == \E k \in 1..Len(q) : ~Loadable(r, q[k])

\* QAueueQueue.index(i): the id of the Item it returns; None (NoIndex) when
\* LINDEX returns nothing or the entry has no hash.  (On a hash without url
\* the call raises: ~Loadable.)
Index(q, r, i) ==
  LET item_id == LIndex(q, i)
  IN IF item_id # NoIndex /\ Exists(r, item_id) THEN item_id ELSE NoIndex

\* mutant: a negative index is taken by its absolute value
Normalize_Abs(p, n) == IF p < 0 THEN -p ELSE p

\* priority = queue_len + priority for a negative index
Normalize(p, n) == IF p < 0 THEN n + p ELSE p

\* mutant: the upper bound test off by one (> for >=)
OutOfRange_OffByOne(p, n) == p > n \/ (p < 0 /\ -p > n)

OutOfRange(p, n) == p >= n \/ (p < 0 /\ -p > n)

Cmd(c, v, pivot) == [cmd |-> c, value |-> v, pivot |-> pivot]

\* mutant: the move to the front forgets to remove the item first
PrioritizeFuts_FrontNoLRem(n, p, after, id) ==
  (IF p = n - 1 THEN <<Cmd("lrem", id, 0), Cmd("rpush", id, 0)>> ELSE <<>>)
  \o (IF p = 0 THEN <<Cmd("lpush", id, 0)>> ELSE <<>>)
  \o (IF p >= 1 /\ after # id
      THEN <<Cmd("lrem", id, 0), Cmd("linsert", id, after)>> ELSE <<>>)

\* mutant: the move to the back pushes on the wrong end
PrioritizeFuts_BackLPush(n, p, after, id) ==
  (IF p = n - 1 THEN <<Cmd("lrem", id, 0), Cmd("lpush", id, 0)>> ELSE <<>>)
  \o (IF p = 0 THEN <<Cmd("lrem", id, 0), Cmd("lpush", id, 0)>> ELSE <<>>)
  \o (IF p >= 1 /\ after # id
      THEN <<Cmd("lrem", id, 0), Cmd("linsert", id, after)>> ELSE <<>>)

\* mutant: the insert after a neighbour without the test that the neighbour
\* is not the item itself
PrioritizeFuts_NoSelfTest(n, p, after, id) ==
  (IF p = n - 1 THEN <<Cmd("lrem", id, 0), Cmd("rpush", id, 0)>> ELSE <<>>)
  \o (IF p = 0 THEN <<Cmd("lrem", id, 0), Cmd("lpush", id, 0)>> ELSE <<>>)
  \o (IF p >= 1
      THEN <<Cmd("lrem", id, 0), Cmd("linsert", id, after)>> ELSE <<>>)

\* mutant: the move to the back takes the item out and does not push it
PrioritizeFuts_BackNoPush(n, p, after, id) ==
  (IF p = n - 1 THEN <<Cmd("lrem", id, 0)>> ELSE <<>>)
  \o (IF p = 0 THEN <<Cmd("lrem", id, 0), Cmd("lpush", id, 0)>> ELSE <<>>)
  \o (IF p >= 1 /\ after # id
      THEN <<Cmd("lrem", id, 0), Cmd("linsert", id, after)>> ELSE <<>>)

\* the commands QAueueQueue.prioritize queues on its MULTI/EXEC transaction,
\* for the normalized priority p, the length n it read and the entry
\* `after` that LINDEX returned for p
PrioritizeFuts(n, p, after, id) ==
  (IF p = n - 1 THEN <<Cmd("lrem", id, 0), Cmd("rpush", id, 0)>> ELSE <<>>)
  \o (IF p = 0 THEN <<Cmd("lrem", id, 0), Cmd("lpush", id, 0)>> ELSE <<>>)
  \o (IF p >= 1 /\ after # id
      THEN <<Cmd("lrem", id, 0), Cmd("linsert", id, after)>> ELSE <<>>)

ExecCmd(q, c) ==
  CASE c.cmd = "lrem" -> LRem(q, c.value)
    [] c.cmd = "rpush" -> RPush(q, c.value)
    [] c.cmd = "lpush" -> LPush(q, c.value)
    [] c.cmd = "linsert" -> LInsert(q, c.pivot, c.value)

\* tr.execute(): the queued commands, in order, as one transaction
RECURSIVE Execute(_, _)
Execute(q, cmds) ==
  IF cmds = <<>> THEN q ELSE Execute(ExecCmd(q, Head(cmds)), Tail(cmds))

PrioritizeOutcome(q, r, hstatus, p, force) ==
  IF hstatus # INITIAL /\ ~force THEN "InvalidItemStatusError"
  ELSE IF ItemsRaises(q, r) THEN "TypeError"
  ELSE IF OutOfRange(p, Len(q)) THEN "OutOfRangePriorityIndexError"
  ELSE "ok"

PrioritizeQueue(q, id, p) ==
  LET n == Len(q)
      pn == Normalize(p, n)
  IN Execute(q, PrioritizeFuts(n, pn, LIndex(q, pn), id))

\* mutant: add_to_queue without the test that the id is already queued
AddToQueueQueue_NoTest(q, id) == RPush(q, id)

\* mutant: add_to_queue pushes on the head of the list
AddToQueueQueue_Head(q, id) == IF ItemPriority(q, id) # NoIndex THEN q ELSE LPush(q, id)

\* QAueueQueue.add_to_queue: nothing when the id is already queued, else
\* RPUSH and HSET status in one transaction
AddToQueueQueue(q, id) == IF ItemPriority(q, id) # NoIndex THEN q ELSE RPush(q, id)

AddToQueueRec(q, r, id) ==
  IF ItemPriority(q, id) # NoIndex THEN r ELSE HSetStatus(r, id, INITIAL)

\* the value add_to_queue returns: None when already queued
AddToQueueRet(q, id) ==
  IF ItemPriority(q, id) # NoIndex THEN NoIndex ELSE ItemPriority(RPush(q, id), id)

(***************************************************************************)
(* The calls of the db layer, one call per action                          *)
(***************************************************************************)
NoCall ==
  [op |-> "none", id |-> 0, hstatus |-> None, p |-> 0, force |-> FALSE,
   outcome |-> "none", ret |-> None, reti |-> NoIndex,
   preq |-> <<>>, prerec |-> NoRec]

Call(op, id, hstatus, p, force, outcome, ret, reti) ==
  [op |-> op, id |-> id, hstatus |-> hstatus, p |-> p, force |-> force,
   outcome |-> outcome, ret |-> ret, reti |-> reti,
   preq |-> queue, prerec |-> rec[id]]

Idle == last.op = "none" /\ \A pr \in Procs : pc[pr] = "idle"

\* mutant: create stores the record and leaves the queue alone
ItemCreate_NoAdd(id, status) ==
  /\ Idle
  /\ rec' = HMSet(rec, id, status)
  /\ last' = Call("create", id, status, 0, FALSE, "ok", status, NoIndex)
  /\ UNCHANGED <<queue, pc, loc, ncalls, tools>>

\* Item.create(url=..., status=status)
ItemCreate(id, status) ==
  /\ Idle
  /\ LET q1 == IF Exists(rec, id) THEN queue ELSE AddToQueueQueue(queue, id)
         r1 == IF Exists(rec, id) THEN rec ELSE AddToQueueRec(queue, rec, id)
         r2 == HMSet(r1, id, status)
     IN /\ queue' = q1
        /\ rec' = r2
        /\ last' = Call("create", id, status, 0, FALSE, "ok", r2[id].status, NoIndex)
  /\ UNCHANGED <<pc, loc, ncalls, tools>>

\* item.update() on a handle with the given in-memory status
ItemUpdate(id, hstatus) ==
  /\ Idle
  /\ LET r2 == HMSet(rec, id, hstatus)
     IN /\ rec' = r2
        /\ last' = Call("update", id, hstatus, 0, FALSE, "ok", r2[id].status, NoIndex)
  /\ UNCHANGED <<queue, pc, loc, ncalls, tools>>

\* mutant: remove takes the id off the list only when the status is 'queued'
ItemRemove_OnlyQueued(id) ==
  /\ Idle
  /\ queue' = IF rec[id].status = INITIAL THEN LRem(queue, id) ELSE queue
  /\ rec' = Delete(rec, id)
  /\ last' = Call("remove", id, None, 0, FALSE, "ok", None, NoIndex)
  /\ UNCHANGED <<pc, loc, ncalls, tools>>

\* item.remove()
ItemRemove(id) ==
  /\ Idle
  /\ queue' = IF ItemPriority(queue, id) # NoIndex THEN LRem(queue, id) ELSE queue
  /\ rec' = Delete(rec, id)
  /\ last' = Call("remove", id, None, 0, FALSE, "ok", None, NoIndex)
  /\ UNCHANGED <<pc, loc, ncalls, tools>>

\* QAueueQueue.add_to_queue(item)
AddToQueue(id) ==
  /\ Idle
  /\ queue' = AddToQueueQueue(queue, id)
  /\ rec' = AddToQueueRec(queue, rec, id)
  /\ last' = Call("add_to_queue", id, None, 0, FALSE, "ok", None, AddToQueueRet(queue, id))
  /\ UNCHANGED <<pc, loc, ncalls, tools>>

\* QAueueQueue.remove_from_queue(item)
RemoveFromQueue(id) ==
  /\ Idle
  /\ queue' = LRem(queue, id)
  /\ last' = Call("remove_from_queue", id, None, 0, FALSE, "ok", None, NoIndex)
  /\ UNCHANGED <<rec, pc, loc, ncalls, tools>>

\* QAueueQueue.prioritize(item, priority, force)
Prioritize(id, hstatus, p, force) ==
  /\ Idle
  /\ LET outcome == PrioritizeOutcome(queue, rec, hstatus, p, force)
     IN /\ queue' = IF outcome = "ok" THEN PrioritizeQueue(queue, id, p) ELSE queue
        /\ last' = Call("prioritize", id, hstatus, p, force, outcome, None, NoIndex)
  /\ UNCHANGED <<rec, pc, loc, ncalls, tools>>

\* the awaited call has returned to its caller
Return ==
  /\ last.op # "none"
  /\ last' = NoCall
  /\ UNCHANGED <<queue, rec, pc, loc, ncalls, tools>>

\* the locals of a handler: the call it runs, the scan of item_priority
\* (scan, i, qlen), and for prioritize and items the target index p, the
\* entry `cur` being loaded, the commands queued on the transaction, whether
\* the transaction is executing (intx) and whether it held a command that
\* cannot be sent (fail).  History kept with them: the ids LINDEX returned
\* to items (seen), the values the list had during the items call (snaps),
\* whether the item to move was queued when prioritize was called (member0),
\* how the call ended, and the ids the handler has called remove on
\* (removed) or add_to_queue / prioritize on (placed), and the content key
\* the call was given (key, 0 when it was given none).  res: the results
\* of the commands of add_to_queue's transaction that have executed.  ret:
\* the value the get_item_index script returned.  latest: the value the
\* migration runner read from 'latest_migration_timestamp' when it started
NoLoc ==
  [op |-> "none", id |-> 0, scan |-> "test", i |-> 0, qlen |-> 0,
   p |-> 0, cur |-> NoIndex, cmds |-> <<>>, intx |-> FALSE, fail |-> FALSE,
   seen |-> <<>>, snaps |-> {}, member0 |-> FALSE, outcome |-> "none",
   removed |-> {}, placed |-> {}, key |-> 0, res |-> <<>>, ret |-> NoIndex,
   latest |-> 0]

Init ==
  /\ queue = <<>>
  /\ rec = [id \in AllItems |-> NoRec]
  /\ last = NoCall
  /\ pc = [pr \in Procs |-> "idle"]
  /\ loc = [pr \in Procs |-> NoLoc]
  /\ ncalls = 0
  /\ InitTools

Priorities(n) == (-(n + 1))..n

Next ==
  \/ \E id \in Items, s \in Statuses : ItemCreate(id, s)
  \/ \E id \in Items, s \in Statuses : ItemUpdate(id, s)
  \/ \E id \in Items : ItemRemove(id)
  \/ \E id \in Items : AddToQueue(id)
  \/ \E id \in Items : RemoveFromQueue(id)
  \/ \E id \in Items, s \in Statuses, p \in Priorities(NumItems), f \in BOOLEAN :
       Prioritize(id, s, p, f)
  \/ Return

Spec == Init /\ [][Next]_vars

\* the queue workflow: items are created with the default status,
\* reprioritized (through fresh or stale handles, forced or not), removed
NextQueue ==
  \/ \E id \in PendingItems : ItemCreate(id, INITIAL)
  \/ \E id \in PendingItems : ItemRemove(id)
  \/ \E id \in PendingItems, s \in Statuses, p \in Priorities(NumPending), f \in BOOLEAN :
       Prioritize(id, s, p, f)
  \/ Return

SpecQueue == Init /\ [][NextQueue]_vars

(***************************************************************************)
(* The commands of the command layer (views.py), one command per action.   *)
(* Each works on the store directly, with its own MULTI/EXEC transaction.  *)
(***************************************************************************)
\* add_item: 'Item already exists' for an id with a hash; else RPUSH and
\* HMSET value, state in one transaction
AddItemQueue(q, r, id) == IF Exists(r, id) THEN q ELSE RPush(q, id)

AddItemRec(r, id) == IF Exists(r, id) THEN r ELSE HSetState(r, id, INITIAL)

AddItem(id) ==
  /\ Idle
  /\ Exists(rec, id) \/ Len(queue) < MaxQueueLen
  /\ queue' = AddItemQueue(queue, rec, id)
  /\ rec' = AddItemRec(rec, id)
  /\ last' = Call("add_item", id, None, 0, FALSE,
                  IF Exists(rec, id) THEN "Item already exists" ELSE "ok",
                  None, IF Exists(rec, id) THEN NoIndex ELSE LLen(queue) + 1)
  /\ UNCHANGED <<pc, loc, ncalls, tools>>

\* remove_item: 'Item does not exist' for an id without a hash; else LREM
\* only when the state is 'queued', then DEL
RemoveItemQueue(q, r, id) ==
  IF Exists(r, id) /\ r[id].state = INITIAL THEN LRem(q, id) ELSE q

\* mutant: remove_item without the EXISTS test, which goes on to the state
\* test and the DEL and returns without an error
RemoveItem_NoExists(id) ==
  /\ Idle
  /\ queue' = RemoveItemQueue(queue, rec, id)
  /\ rec' = Delete(rec, id)
  /\ last' = Call("remove_item", id, None, 0, FALSE, "ok", None, NoIndex)
  /\ UNCHANGED <<pc, loc, ncalls, tools>>

RemoveItem(id) ==
  /\ Idle
  /\ queue' = RemoveItemQueue(queue, rec, id)
  /\ rec' = IF Exists(rec, id) THEN Delete(rec, id) ELSE rec
  /\ last' = Call("remove_item", id, None, 0, FALSE,
                  IF Exists(rec, id) THEN "ok" ELSE "Item does not exist",
                  None, NoIndex)
  /\ UNCHANGED <<pc, loc, ncalls, tools>>

\* mutant: the update to 'released' leaves the list alone
SetItemStatusQueue_NoLRem(q, r, id, new_status) == q

\* set_item_status: LREM when the new status is 'released', and HSET state,
\* in one transaction
SetItemStatusQueue(q, r, id, new_status) ==
  IF Exists(r, id) /\ new_status = COMPLETED THEN LRem(q, id) ELSE q

SetItemStatus(id, new_status) ==
  /\ Idle
  /\ queue' = SetItemStatusQueue(queue, rec, id, new_status)
  /\ rec' = IF Exists(rec, id) THEN HSetState(rec, id, new_status) ELSE rec
  /\ last' = Call("set_item_status", id, new_status, 0, FALSE,
                  IF Exists(rec, id) THEN "ok" ELSE "Does not exist",
                  None, NoIndex)
  /\ UNCHANGED <<pc, loc, ncalls, tools>>

\* the commands prioritize_item queues for the 1-based index new_pindex and
\* the entry `after` that LINDEX returned for new_pindex - 1
PrioritizeItemFuts(new_pindex, after, id) ==
  (IF new_pindex = 1 THEN <<Cmd("lrem", id, 0), Cmd("lpush", id, 0)>> ELSE <<>>)
  \o (IF new_pindex >= 2 /\ after # id
      THEN <<Cmd("lrem", id, 0), Cmd("linsert", id, after)>> ELSE <<>>)

PrioritizeItemOutcome(r, id, new_pindex) ==
  IF new_pindex <= 0 THEN "Invalid priority index"
  ELSE IF ~Exists(r, id) THEN "Item does not exist"
  ELSE IF r[id].state # INITIAL THEN "Item is not queued"
  ELSE "ok"

\* prioritize_item.  LINDEX past the end of the list returns None, and the
\* LINSERT with the pivot None cannot be encoded: the client fails, having
\* sent the transaction with the LREM alone (sent) or nothing
PrioritizeItem(id, new_pindex, sent) ==
  /\ Idle
  /\ LET outcome == PrioritizeItemOutcome(rec, id, new_pindex)
         after == LIndex(queue, new_pindex - 1)
         nopivot == new_pindex >= 2 /\ after = NoIndex
     IN /\ nopivot \/ ~sent
        /\ queue' = IF outcome # "ok" THEN queue
                    ELSE IF nopivot THEN (IF sent THEN LRem(queue, id) ELSE queue)
                    ELSE Execute(queue, PrioritizeItemFuts(new_pindex, after, id))
        /\ last' = Call("prioritize_item", id, None, new_pindex, FALSE,
                        IF outcome = "ok" /\ nopivot THEN "TypeError" ELSE outcome,
                        None, NoIndex)
  /\ UNCHANGED <<rec, pc, loc, ncalls, tools>>

NextCmd ==
  \/ \E id \in CmdItems : AddItem(id)
  \/ \E id \in CmdItems : RemoveItem(id)
  \/ \E id \in CmdItems, s \in CmdStatuses : SetItemStatus(id, s)
  \/ \E id \in CmdItems, p \in 0..(MaxQueueLen + 1), sent \in BOOLEAN :
       PrioritizeItem(id, p, sent)
  \/ Return

SpecCmd == Init /\ [][NextCmd]_vars

(***************************************************************************)
(* Item.create and Item.remove with a store that fails at one command: the *)
(* commands awaited before it have taken effect, the command itself and    *)
(* the rest of the call have not.  A MULTI/EXEC that fails applies none of *)
(* its commands.                                                           *)
(***************************************************************************)
\* the awaits of Item.create, in order: EXISTS; in add_to_queue the scan of
\* item_priority, the transaction, the scan for the return value; the
\* HMSET of update; the reads of Item.get
CreateStages == {"exists", "scan", "multi", "ret_scan", "hmset", "get"}

\* whether the call issues that command
CreateReaches(q, r, id, at) ==
  CASE at = "scan" -> ~Exists(r, id)
    [] at \in {"multi", "ret_scan"} -> ~Exists(r, id) /\ ItemPriority(q, id) = NoIndex
    [] OTHER -> TRUE

ItemCreateFails(id, status, at) ==
  /\ Idle
  /\ CreateReaches(queue, rec, id, at)
  /\ LET added == ~Exists(rec, id) /\ at \in {"ret_scan", "hmset", "get"}
         r1 == IF added THEN AddToQueueRec(queue, rec, id) ELSE rec
     IN /\ queue' = IF added THEN AddToQueueQueue(queue, id) ELSE queue
        /\ rec' = IF at = "get" THEN HMSet(r1, id, status) ELSE r1
  /\ last' = Call("create", id, status, 0, FALSE, "StoreError", None, NoIndex)
  /\ UNCHANGED <<pc, loc, ncalls, tools>>

\* the awaits of Item.remove: the scan of item_priority, the LREM of
\* remove_from_queue when the scan found the id, the DEL
RemoveStages == {"scan", "lrem", "delete"}

ItemRemoveFails(id, at) ==
  /\ Idle
  /\ at = "lrem" => ItemPriority(queue, id) # NoIndex
  /\ queue' = IF at = "delete" /\ ItemPriority(queue, id) # NoIndex
              THEN LRem(queue, id) ELSE queue
  /\ last' = Call("remove", id, None, 0, FALSE, "StoreError", None, NoIndex)
  /\ UNCHANGED <<rec, pc, loc, ncalls, tools>>

NextFail ==
  \/ \E id \in Items, s \in Statuses : ItemCreate(id, s)
  \/ \E id \in Items : ItemRemove(id)
  \/ \E id \in Items, s \in Statuses, at \in CreateStages : ItemCreateFails(id, s, at)
  \/ \E id \in Items, at \in RemoveStages : ItemRemoveFails(id, at)
  \/ Return

SpecFail == Init /\ [][NextFail]_vars

(***************************************************************************)
(* Items addressed by their content key.  A URL is kept as the shape the   *)
(* validators of pivotal.py and github.py tell apart and a number n that   *)
(* stands for its text; the md5 digest is taken to be free of collisions   *)
(* on the URLs at hand.                                                    *)
(***************************************************************************)
Urls ==
  {[shape |-> "pivotal_short", n |-> 1], [shape |-> "pivotal_full", n |-> 2],
   [shape |-> "github_pr", n |-> 3], [shape |-> "other", n |-> 4]}

\* hashlib.md5(url.encode()).hexdigest()
Md5(u) == u.n

UrlIds == {Md5(u) : u \in Urls}

\* the URL that has the digest
UrlOf(id) == CHOOSE u \in Urls : Md5(u) = id

\* pivotal.is_pivotal_story_url: the short or the full story URL
IsPivotalStoryUrl(u) == u.shape = "pivotal_short" \/ u.shape = "pivotal_full"

\* github.is_pull_request_url
IsPullRequestUrl(u) == u.shape = "github_pr"

\* mutant: every text is taken for a supported URL
IsSupportedUrl_Any(u) == TRUE

\* Item.is_supported_url: one of the validators matches
IsSupportedUrl(u) == IsPivotalStoryUrl(u) \/ IsPullRequestUrl(u)

\* the ids of the Item handles there can be: the constructor takes none
\* but a supported URL
HandleIds == {Md5(u) : u \in {v \in Urls : IsSupportedUrl(v)}}

\* Item.create(url=u, status=status): the constructor computes
\* item_id_from_url(url), which raises for an unsupported URL, before
\* create awaits any store command
ItemCreateUrl(u, status) ==
  IF IsSupportedUrl(u)
  THEN ItemCreate(Md5(u), status)
  ELSE /\ Idle
       /\ last' = Call("create", Md5(u), status, 0, FALSE,
                       "UnsupportedItemTypeError", None, NoIndex)
       /\ UNCHANGED <<queue, rec, pc, loc, ncalls, tools>>

\* what Item.get(item_id) ends with: None without a hash, else the Item
\* built from the hash, whose constructor raises without a url
GetOutcome(r, id) == IF Loadable(r, id) THEN "ok" ELSE "TypeError"

GetRet(r, id) == IF Exists(r, id) /\ Loadable(r, id) THEN "Item" ELSE None

\* Item.get(item_id=id)
ItemGetId(id) ==
  /\ Idle
  /\ last' = Call("get_id", id, None, 0, FALSE, GetOutcome(rec, id), GetRet(rec, id), NoIndex)
  /\ UNCHANGED <<queue, rec, pc, loc, ncalls, tools>>

\* Item.get(item_url=u): item_id_from_url raises for an unsupported URL
ItemGetUrl(u) ==
  /\ Idle
  /\ last' = Call("get_url", Md5(u), None, 0, FALSE,
                  IF IsSupportedUrl(u) THEN GetOutcome(rec, Md5(u))
                  ELSE "UnsupportedItemTypeError",
                  IF IsSupportedUrl(u) THEN GetRet(rec, Md5(u)) ELSE None, NoIndex)
  /\ UNCHANGED <<queue, rec, pc, loc, ncalls, tools>>

\* Item.get(item_index=i), that is QAueueQueue.index(i): None when LINDEX
\* returns nothing, else Item.get of the entry.  reti is the entry
ItemGetIndex(i) ==
  /\ Idle
  /\ LET item_id == LIndex(queue, i)
     IN last' = IF item_id = NoIndex
                THEN [NoCall EXCEPT !.op = "get_index", !.p = i, !.outcome = "ok",
                                    !.preq = queue]
                ELSE Call("get_index", item_id, None, i, FALSE, GetOutcome(rec, item_id),
                          GetRet(rec, item_id), item_id)
  /\ UNCHANGED <<queue, rec, pc, loc, ncalls, tools>>

NextUrl ==
  \/ \E u \in Urls, s \in Statuses : ItemCreateUrl(u, s)
  \/ \E id \in HandleIds, s \in Statuses \cup {None} : ItemUpdate(id, s)
  \/ \E id \in HandleIds : ItemRemove(id)
  \/ \E id \in HandleIds : AddToQueue(id)
  \/ \E id \in UrlIds : ItemGetId(id)
  \/ \E u \in Urls : ItemGetUrl(u)
  \/ \E i \in Priorities(Cardinality(Urls)) : ItemGetIndex(i)
  \/ Return

SpecUrl == Init /\ [][NextUrl]_vars

(***************************************************************************)
(* The identity of an item: the id a handler gets for a content key, kept  *)
(* with the key in the handler's locals, while creates and removes of      *)
(* other handlers change the store in between.                             *)
(***************************************************************************)
\* the text of a URL stands for itself in the locals
KeyOf(u) == u.n

\* mutant: the id is a serial number taken from the length of the list
ItemIdFromUrl_Serial(u) == (Len(queue) % Cardinality(HandleIds)) + 1

\* Item.item_id_from_url for a supported URL: the md5 digest of the text
ItemIdFromUrl(u) == Md5(u)

\* a handler evaluates Item.item_id_from_url(u); no store command is sent
ResolveUrl(pr, u) ==
  /\ pc[pr] = "idle"
  /\ loc' = [loc EXCEPT ![pr] =
               [NoLoc EXCEPT !.op = "item_id_from_url", !.key = KeyOf(u),
                             !.id = IF IsSupportedUrl(u) THEN ItemIdFromUrl(u) ELSE 0,
                             !.outcome = IF IsSupportedUrl(u) THEN "ok"
                                         ELSE "UnsupportedItemTypeError"]]
  /\ UNCHANGED <<queue, rec, last, pc, ncalls, tools>>

\* a handler runs Item.create(url=u) for a supported URL, with the default
\* status: the constructor takes the id from item_id_from_url(u)
CreateByKey(pr, u) ==
  /\ Idle
  /\ IsSupportedUrl(u)
  /\ LET id == ItemIdFromUrl(u)
         q1 == IF Exists(rec, id) THEN queue ELSE AddToQueueQueue(queue, id)
         r1 == IF Exists(rec, id) THEN rec ELSE AddToQueueRec(queue, rec, id)
         r2 == HMSet(r1, id, INITIAL)
     IN /\ queue' = q1
        /\ rec' = r2
        /\ last' = Call("create", id, INITIAL, 0, FALSE, "ok", r2[id].status, NoIndex)
        /\ loc' = [loc EXCEPT ![pr] =
                     [NoLoc EXCEPT !.op = "create", !.key = KeyOf(u), !.id = id,
                                   !.outcome = "ok"]]
  /\ UNCHANGED <<pc, ncalls, tools>>

NextId ==
  \/ \E pr \in Procs, u \in Urls : ResolveUrl(pr, u)
  \/ \E pr \in Procs, u \in Urls : CreateByKey(pr, u)
  \/ \E id \in HandleIds : ItemRemove(id)
  \/ Return

SpecId == Init /\ [][NextId]_vars

(***************************************************************************)
(* Item.create and QAueueQueue.add_to_queue run by concurrent handlers:    *)
(* every await of a store command (or of a MULTI/EXEC transaction) is one  *)
(* step, and the event loop may switch handlers between any two of them.   *)
(***************************************************************************)
Goto(pr, label) == pc' = [pc EXCEPT ![pr] = label]

\* mutant: the commands of a transaction sent one by one, outside MULTI/EXEC
ServerFree_NoTransaction(pr) == TRUE

\* the server takes a command of the handler: no other client's MULTI/EXEC
\* is executing
ServerFree(pr) == \A o \in Procs \ {pr} : ~loc[o].intx

\* the locals of a handler that starts a call
NewCall(pr, op, id) ==
  [NoLoc EXCEPT !.op = op, !.id = id,
                !.removed = loc[pr].removed \cup (IF op = "remove" THEN {id} ELSE {}),
                !.placed = loc[pr].placed
                             \cup (IF op \in {"create", "add_to_queue", "prioritize"}
                                   THEN {id} ELSE {})]

\* the list value q recorded with every items call that is under way
Seen(l, q) ==
  [o \in Procs |->
     IF l[o].op = "items" /\ pc[o] \in {"items_lindex", "get_exists", "get_hget"}
     THEN [l[o] EXCEPT !.snaps = @ \cup {q}] ELSE l[o]]

\* where add_to_queue returns to
AfterAdd(pr) == IF loc[pr].op = "create" THEN "update_hmset" ELSE "idle"

\* a handler starts Item.create(url) for the item
CreateStart(pr, id) ==
  /\ pc[pr] = "idle"
  /\ ncalls < MaxCalls
  /\ ncalls' = ncalls + 1
  /\ UNCHANGED tools
  /\ Goto(pr, "create_exists")
  /\ loc' = [loc EXCEPT ![pr] = NewCall(pr, "create", id)]
  /\ UNCHANGED <<queue, rec, last>>

\* a handler starts QAueueQueue.add_to_queue(item)
AddStart(pr, id) ==
  /\ pc[pr] = "idle"
  /\ ncalls < MaxCalls
  /\ ncalls' = ncalls + 1
  /\ UNCHANGED tools
  /\ Goto(pr, "priority_llen")
  /\ loc' = [loc EXCEPT ![pr] = NewCall(pr, "add_to_queue", id)]
  /\ UNCHANGED <<queue, rec, last>>

\* Item.create: `if not await cls.exists(item.item_id)`
CreateExists(pr) ==
  /\ pc[pr] = "create_exists"
  /\ ServerFree(pr)
  /\ Goto(pr, IF Exists(rec, loc[pr].id) THEN "update_hmset" ELSE "priority_llen")
  /\ UNCHANGED <<queue, rec, last, loc, ncalls, tools>>

\* where a scan of item_priority that ended goes on.  In add_to_queue the
\* scan that tests for presence returns on a hit and goes to the
\* transaction on a miss; the scan for the return value returns.  In
\* Item.remove a hit goes to remove_from_queue, a miss to the DEL
AfterScan(pr, found) ==
  IF loc[pr].op = "remove" THEN (IF found THEN "remove_lrem" ELSE "remove_delete")
  ELSE IF loc[pr].scan = "test" /\ ~found THEN "add_multi" ELSE AfterAdd(pr)

\* item_priority: `qlen = await cls.redis.llen(cls.key)`
PriorityLLen(pr) ==
  /\ pc[pr] = "priority_llen"
  /\ ServerFree(pr)
  /\ loc' = [loc EXCEPT ![pr].qlen = LLen(queue), ![pr].i = 0]
  /\ Goto(pr, IF LLen(queue) = 0 THEN AfterScan(pr, FALSE) ELSE "priority_lindex")
  /\ UNCHANGED <<queue, rec, last, ncalls, tools>>

\* item_priority: one `await cls.redis.lindex(cls.key, i)` of the scan
PriorityLIndex(pr) ==
  /\ pc[pr] = "priority_lindex"
  /\ ServerFree(pr)
  /\ LET found == LIndex(queue, loc[pr].i) = loc[pr].id
         more == loc[pr].i + 1 < loc[pr].qlen
     IN /\ Goto(pr, IF ~found /\ more THEN "priority_lindex" ELSE AfterScan(pr, found))
        /\ loc' = [loc EXCEPT ![pr].i = IF ~found /\ more THEN @ + 1 ELSE @]
  /\ UNCHANGED <<queue, rec, last, ncalls, tools>>

\* add_to_queue: the transaction LLEN, RPUSH, HSET status, LLEN; then the
\* scan for the value to return
AddMulti(pr) ==
  /\ pc[pr] = "add_multi"
  /\ ServerFree(pr)
  /\ queue' = RPush(queue, loc[pr].id)
  /\ rec' = HSetStatus(rec, loc[pr].id, INITIAL)
  /\ Goto(pr, "priority_llen")
  /\ loc' = Seen([loc EXCEPT ![pr].scan = "ret"], RPush(queue, loc[pr].id))
  /\ UNCHANGED <<last, ncalls, tools>>

\* Item.update: HMSET of the handle's fields (status = 'queued' by default)
UpdateHMSet(pr) ==
  /\ pc[pr] = "update_hmset"
  /\ ServerFree(pr)
  /\ rec' = HMSet(rec, loc[pr].id, INITIAL)
  /\ Goto(pr, "get_exists")
  /\ UNCHANGED <<queue, last, loc, ncalls, tools>>

\* whether the handler is inside QAueueQueue.items
InItems(pr) == loc[pr].op \in {"items", "prioritize"}

\* where items goes on after the entry at index i: the next entry, or the
\* return (to the caller of items, or into prioritize)
AfterEntry(pr) ==
  IF loc[pr].i + 1 < loc[pr].qlen THEN "items_lindex"
  ELSE IF loc[pr].op = "prioritize" THEN "prio_check" ELSE "idle"

\* the locals after the entry at index i
EntryDone(pr) ==
  [loc[pr] EXCEPT !.i = @ + 1,
                  !.outcome = IF AfterEntry(pr) = "idle" THEN "ok" ELSE @]

\* Item.get: `if not await cls.exists(item_id): return`
GetExists(pr) ==
  /\ pc[pr] = "get_exists"
  /\ ServerFree(pr)
  /\ IF InItems(pr)
     THEN IF Exists(rec, loc[pr].cur)
          THEN Goto(pr, "get_hget") /\ UNCHANGED loc
          ELSE Goto(pr, AfterEntry(pr)) /\ loc' = [loc EXCEPT ![pr] = EntryDone(pr)]
     ELSE /\ Goto(pr, IF Exists(rec, loc[pr].id) THEN "get_hget" ELSE "idle")
          /\ UNCHANGED loc
  /\ UNCHANGED <<queue, rec, last, ncalls, tools>>

\* Item.get: the HGETs of the fields, and the return of the Item; inside
\* items, the constructor raising on a hash without url ends the call
GetHGet(pr) ==
  /\ pc[pr] = "get_hget"
  /\ ServerFree(pr)
  /\ IF InItems(pr)
     THEN IF Exists(rec, loc[pr].cur) /\ rec[loc[pr].cur].url
          THEN Goto(pr, AfterEntry(pr)) /\ loc' = [loc EXCEPT ![pr] = EntryDone(pr)]
          ELSE Goto(pr, "idle") /\ loc' = [loc EXCEPT ![pr].outcome = "TypeError"]
     ELSE Goto(pr, "idle") /\ UNCHANGED loc
  /\ UNCHANGED <<queue, rec, last, ncalls, tools>>

NextConc ==
  \E pr \in Procs :
    \/ \E id \in ConcItems : CreateStart(pr, id)
    \/ \E id \in ConcItems : AddStart(pr, id)
    \/ CreateExists(pr)
    \/ PriorityLLen(pr)
    \/ PriorityLIndex(pr)
    \/ AddMulti(pr)
    \/ UpdateHMSet(pr)
    \/ GetExists(pr)
    \/ GetHGet(pr)

SpecConc == Init /\ [][NextConc]_vars

(***************************************************************************)
(* Concurrent add commands of the command layer.  add_item and its two     *)
(* variants run EXISTS as one command and then the MULTI/EXEC of RPUSH,    *)
(* HMSET, LLEN; the handler gives up the event loop at each await.         *)
(* remove_from_queue is the single command LREM.                           *)
(***************************************************************************)
\* a handler starts add_item / add_pivotal_story / add_github_pr for the id
CmdAddStart(pr, id) ==
  /\ pc[pr] = "idle"
  /\ ncalls < MaxCalls
  /\ ncalls' = ncalls + 1
  /\ UNCHANGED tools
  /\ Goto(pr, "cmd_add_exists")
  /\ loc' = [loc EXCEPT ![pr] = NewCall(pr, "add_item", id)]
  /\ UNCHANGED <<queue, rec, last>>

\* `exists = await conn.exists(item_id)`; `if exists == 1: return ...
\* 'Item already exists'`
CmdAddExists(pr) ==
  /\ pc[pr] = "cmd_add_exists"
  /\ ServerFree(pr)
  /\ IF Exists(rec, loc[pr].id)
     THEN /\ Goto(pr, "idle")
          /\ loc' = [loc EXCEPT ![pr].outcome = "Item already exists"]
     ELSE /\ Goto(pr, "cmd_add_multi")
          /\ UNCHANGED loc
  /\ UNCHANGED <<queue, rec, last, ncalls, tools>>

\* `res1 = await tr.execute()`: RPUSH, HMSET value, state and LLEN in one
\* transaction, and the return of the result without an error
CmdAddMulti(pr) ==
  /\ pc[pr] = "cmd_add_multi"
  /\ ServerFree(pr)
  /\ queue' = RPush(queue, loc[pr].id)
  /\ rec' = HSetState(rec, loc[pr].id, INITIAL)
  /\ Goto(pr, "idle")
  /\ loc' = [loc EXCEPT ![pr].outcome = "ok"]
  /\ UNCHANGED <<last, ncalls, tools>>

NextAdds ==
  \/ \E pr \in Procs, id \in ConcItems : CmdAddStart(pr, id)
  \/ \E pr \in Procs : CmdAddExists(pr)
  \/ \E pr \in Procs : CmdAddMulti(pr)
  \/ \E id \in ConcItems : RemoveFromQueue(id)
  \/ Return

SpecAdds == Init /\ [][NextAdds]_vars

(***************************************************************************)
(* QAueueQueue.prioritize, Item.remove, QAueueQueue.items and add_to_queue *)
(* run by concurrent handlers on a store that holds queued items.  The     *)
(* commands of a MULTI/EXEC transaction execute one per step; the server   *)
(* executes no command of another client until the transaction is through. *)
(***************************************************************************)
MaxMoves == 2
MoveItems == {1, 2, 3}
MoveProcs == {1, 2}
MovePriorities == 0..2

\* the lists without a repeated id, up to the names of the items:
\* <<>>, <<1>>, <<1, 2>>, <<1, 2, 3>>
MoveQueues == {[k \in 1..n |-> k] : n \in 0..Cardinality(MoveItems)}

\* the record of an item after Item.create(url)
CreatedRec == [present |-> TRUE, status |-> INITIAL, url |-> TRUE, state |-> None,
               released_at |-> FALSE]

\* a store in which some items have been created
InitMoves ==
  /\ queue \in MoveQueues
  /\ rec = [id \in AllItems |->
              IF \E k \in 1..Len(queue) : queue[k] = id THEN CreatedRec ELSE NoRec]
  /\ last = NoCall
  /\ pc = [pr \in Procs |-> "idle"]
  /\ loc = [pr \in Procs |-> NoLoc]
  /\ ncalls = 0
  /\ InitTools

StartCall(pr, label) ==
  /\ pc[pr] = "idle"
  /\ ncalls < MaxMoves
  /\ ncalls' = ncalls + 1
  /\ UNCHANGED tools
  /\ Goto(pr, label)
  /\ UNCHANGED <<queue, rec, last>>

\* a handler starts item.remove()
RemoveStart(pr, id) ==
  /\ StartCall(pr, "priority_llen")
  /\ loc' = [loc EXCEPT ![pr] = NewCall(pr, "remove", id)]

\* remove_from_queue: LREM key 0 item_id
RemoveLRem(pr) ==
  /\ pc[pr] = "remove_lrem"
  /\ ServerFree(pr)
  /\ queue' = LRem(queue, loc[pr].id)
  /\ Goto(pr, "remove_delete")
  /\ loc' = Seen(loc, LRem(queue, loc[pr].id))
  /\ UNCHANGED <<rec, last, ncalls, tools>>

\* Item.remove: DEL item_id
RemoveDelete(pr) ==
  /\ pc[pr] = "remove_delete"
  /\ ServerFree(pr)
  /\ rec' = Delete(rec, loc[pr].id)
  /\ Goto(pr, "idle")
  /\ loc' = [loc EXCEPT ![pr].outcome = "ok"]
  /\ UNCHANGED <<queue, last, ncalls, tools>>

\* a handler starts QAueueQueue.add_to_queue(item)
AddToQueueStart(pr, id) ==
  /\ StartCall(pr, "priority_llen")
  /\ loc' = [loc EXCEPT ![pr] = NewCall(pr, "add_to_queue", id)]

\* a handler starts QAueueQueue.items()
ItemsStart(pr) ==
  /\ StartCall(pr, "items_llen")
  /\ loc' = [loc EXCEPT ![pr] = NewCall(pr, "items", 0)]

\* a handler starts QAueueQueue.prioritize(item, priority) with a handle
\* whose status is 'queued'
PrioStart(pr, id, p) ==
  /\ StartCall(pr, "items_llen")
  /\ loc' = [loc EXCEPT ![pr] = [NewCall(pr, "prioritize", id) EXCEPT
                                   !.p = p, !.member0 = ItemPriority(queue, id) # NoIndex]]

\* items: `qlen = await cls.redis.llen(cls.key)`
ItemsLLen(pr) ==
  /\ pc[pr] = "items_llen"
  /\ ServerFree(pr)
  /\ LET next == IF LLen(queue) > 0 THEN "items_lindex"
                 ELSE IF loc[pr].op = "prioritize" THEN "prio_check" ELSE "idle"
     IN /\ Goto(pr, next)
        /\ loc' = [loc EXCEPT ![pr].qlen = LLen(queue), ![pr].i = 0,
                              ![pr].snaps = IF loc[pr].op = "items" THEN {queue} ELSE @,
                              ![pr].outcome = IF next = "idle" THEN "ok" ELSE @]
  /\ UNCHANGED <<queue, rec, last, ncalls, tools>>

\* items: `item_id = await cls.redis.lindex(cls.key, i)`; Item.get(None)
\* returns None without a store command
ItemsLIndex(pr) ==
  /\ pc[pr] = "items_lindex"
  /\ ServerFree(pr)
  /\ LET item_id == LIndex(queue, loc[pr].i)
         l1 == [loc[pr] EXCEPT !.cur = item_id,
                               !.seen = IF loc[pr].op = "items" THEN Append(@, item_id) ELSE @]
     IN IF item_id = NoIndex
        THEN /\ Goto(pr, AfterEntry(pr))
             /\ loc' = [loc EXCEPT ![pr] =
                          [l1 EXCEPT !.i = @ + 1,
                                     !.outcome = IF AfterEntry(pr) = "idle" THEN "ok" ELSE @]]
        ELSE /\ Goto(pr, "get_exists")
             /\ loc' = [loc EXCEPT ![pr] = l1]
  /\ UNCHANGED <<queue, rec, last, ncalls, tools>>

\* prioritize: the range test on the length of what items returned, the
\* normalization, and the commands of the moves to the back and the front
PrioCheck(pr) ==
  /\ pc[pr] = "prio_check"
  /\ ServerFree(pr)
  /\ LET n == loc[pr].qlen
         pn == Normalize(loc[pr].p, n)
     IN IF OutOfRange(loc[pr].p, n)
        THEN /\ Goto(pr, "idle")
             /\ loc' = [loc EXCEPT ![pr].outcome = "OutOfRangePriorityIndexError"]
        ELSE /\ Goto(pr, IF pn >= 1 THEN "prio_lindex" ELSE "prio_exec")
             /\ loc' = [loc EXCEPT ![pr].p = pn,
                                   ![pr].cmds = PrioritizeFuts(n, pn, NoIndex, loc[pr].id)]
  /\ UNCHANGED <<queue, rec, last, ncalls, tools>>

\* prioritize: `after_item_id = await cls.redis.lindex(cls.key, priority)`
\* and the commands that follow from it.  A LINSERT with the pivot None
\* cannot be encoded: the client fails, having sent the transaction
\* without it (sent) or nothing
PrioLIndex(pr, sent) ==
  /\ pc[pr] = "prio_lindex"
  /\ ServerFree(pr)
  /\ LET after == LIndex(queue, loc[pr].p)
     IN /\ after = NoIndex \/ sent
        /\ loc' = [loc EXCEPT ![pr].fail = (after = NoIndex),
                              ![pr].cmds = IF sent
                                           THEN PrioritizeFuts(loc[pr].qlen, loc[pr].p,
                                                               after, loc[pr].id)
                                           ELSE <<>>]
  /\ Goto(pr, "prio_exec")
  /\ UNCHANGED <<queue, rec, last, ncalls, tools>>

\* prioritize: `await tr.execute()`, the next command of the transaction
PrioExec(pr) ==
  /\ pc[pr] = "prio_exec"
  /\ ServerFree(pr)
  /\ LET cmds == loc[pr].cmds
         rest == IF cmds = <<>> THEN <<>> ELSE Tail(cmds)
         q1 == IF cmds = <<>> THEN queue ELSE ExecCmd(queue, Head(cmds))
     IN /\ queue' = q1
        /\ Goto(pr, IF rest = <<>> THEN "idle" ELSE "prio_exec")
        /\ loc' = IF rest # <<>>
                  THEN [loc EXCEPT ![pr].cmds = rest, ![pr].intx = TRUE]
                  ELSE Seen([loc EXCEPT ![pr].cmds = rest,
                                        ![pr].intx = FALSE,
                                        ![pr].outcome = IF loc[pr].fail THEN "TypeError"
                                                        ELSE "ok"], q1)
  /\ UNCHANGED <<rec, last, ncalls, tools>>

NextMoves ==
  \E pr \in MoveProcs :
    \/ \E id \in MoveItems : RemoveStart(pr, id)
    \/ \E id \in MoveItems : AddToQueueStart(pr, id)
    \/ \E id \in MoveItems, p \in MovePriorities : PrioStart(pr, id, p)
    \/ ItemsStart(pr)
    \/ PriorityLLen(pr)
    \/ PriorityLIndex(pr)
    \/ AddMulti(pr)
    \/ RemoveLRem(pr)
    \/ RemoveDelete(pr)
    \/ ItemsLLen(pr)
    \/ ItemsLIndex(pr)
    \/ GetExists(pr)
    \/ GetHGet(pr)
    \/ PrioCheck(pr)
    \/ \E sent \in BOOLEAN : PrioLIndex(pr, sent)
    \/ PrioExec(pr)

SpecMoves == InitMoves /\ [][NextMoves]_vars

(***************************************************************************)
(* add_to_queue with its transaction taken one command at a time: LLEN,    *)
(* RPUSH, HSET status, LLEN, and then `assert res[0] == (res[-1] - 1)`,    *)
(* next to the removes and prioritizes of other handlers.                  *)
(***************************************************************************)
\* the commands add_to_queue queues on its MULTI/EXEC transaction
AddToQueueCmds(id) ==
  <<Cmd("llen", 0, 0), Cmd("rpush", id, 0), Cmd("hset", id, 0), Cmd("llen", 0, 0)>>

\* the reply of the server to a command of the transaction
Reply(q, r, c) ==
  CASE c.cmd = "llen" -> LLen(q)
    [] c.cmd = "rpush" -> LLen(q) + 1
    [] c.cmd = "hset" -> IF Exists(r, c.value) /\ r[c.value].status # None THEN 0 ELSE 1

\* `res = await tr.execute()`, the next command of the transaction; after
\* the last one the assert on the two lengths, and the scan for the value
\* to return
AddExec(pr) ==
  /\ pc[pr] = "add_multi"
  /\ ServerFree(pr)
  /\ LET cmds == IF loc[pr].intx THEN loc[pr].cmds ELSE AddToQueueCmds(loc[pr].id)
         c == Head(cmds)
         rest == Tail(cmds)
         q1 == IF c.cmd = "rpush" THEN RPush(queue, c.value) ELSE queue
         res == Append(loc[pr].res, Reply(queue, rec, c))
     IN /\ queue' = q1
        /\ rec' = IF c.cmd = "hset" THEN HSetStatus(rec, c.value, INITIAL) ELSE rec
        /\ IF rest # <<>>
           THEN /\ Goto(pr, "add_multi")
                /\ loc' = [loc EXCEPT ![pr].cmds = rest, ![pr].intx = TRUE,
                                      ![pr].res = res]
           ELSE /\ Goto(pr, IF res[1] = res[Len(res)] - 1 THEN "priority_llen" ELSE "idle")
                /\ loc' = [loc EXCEPT ![pr].cmds = rest, ![pr].intx = FALSE,
                                      ![pr].res = res, ![pr].scan = "ret",
                                      ![pr].outcome = IF res[1] = res[Len(res)] - 1
                                                      THEN @ ELSE "AssertionError"]
  /\ UNCHANGED <<last, ncalls, tools>>

NextAssert ==
  \E pr \in MoveProcs :
    \/ \E id \in MoveItems : AddToQueueStart(pr, id)
    \/ \E id \in MoveItems : RemoveStart(pr, id)
    \/ \E id \in MoveItems, p \in MovePriorities : PrioStart(pr, id, p)
    \/ PriorityLLen(pr)
    \/ PriorityLIndex(pr)
    \/ AddExec(pr)
    \/ RemoveLRem(pr)
    \/ RemoveDelete(pr)
    \/ ItemsLLen(pr)
    \/ ItemsLIndex(pr)
    \/ GetExists(pr)
    \/ GetHGet(pr)
    \/ PrioCheck(pr)
    \/ \E sent \in BOOLEAN : PrioLIndex(pr, sent)
    \/ PrioExec(pr)

SpecAssert == InitMoves /\ [][NextAssert]_vars

(***************************************************************************)
(* The script get_item_index (src/qaueue/redis.py).  The server runs a     *)
(* script to its end before it takes another command, so the list is the   *)
(* one LRANGE returned throughout.  The script is a function of the list   *)
(* and its argument: the specification starts from any list of up to       *)
(* MaxLuaLen entries.                                                      *)
(***************************************************************************)
MaxLuaLen == 3
LuaItems == {1, 2}
LuaArgs == LuaItems \cup {3}

\* the values of i past the end of every list: for all of them items[i+1]
\* is nil and i+1 is not #items, so only their parity is kept, as LuaPast
\* and LuaPast + 1
LuaPast == MaxLuaLen + 1

\* i = i + 1
LuaIncr(i) == IF i + 1 > LuaPast + 1 THEN LuaPast ELSE i + 1

RECURSIVE SeqsUpTo(_, _)
SeqsUpTo(S, n) ==
  IF n = 0 THEN {<<>>}
  ELSE LET shorter == SeqsUpTo(S, n - 1)
       IN shorter \cup {Append(q, x) : q \in {t \in shorter : Len(t) = n - 1}, x \in S}

InitLua ==
  /\ queue \in SeqsUpTo(LuaItems, MaxLuaLen)
  /\ rec = [id \in AllItems |-> NoRec]
  /\ last = NoCall
  /\ pc = [pr \in Procs |-> "idle"]
  /\ loc = [pr \in Procs |-> NoLoc]
  /\ ncalls = 0
  /\ InitTools

\* a client has the script run with ARGV[1] = arg: `local items = LRANGE
\* key 0 -1`, `local i = 0`
LuaStart(pr, arg) ==
  /\ pc[pr] = "idle"
  /\ ServerFree(pr)
  /\ Goto(pr, "lua_loop")
  /\ loc' = [loc EXCEPT ![pr] = [NoLoc EXCEPT !.op = "get_item_index", !.id = arg,
                                              !.i = 0, !.intx = TRUE]]
  /\ UNCHANGED <<queue, rec, last, ncalls, tools>>

\* items[k] of the Lua table: nil (NoIndex) outside 1..#items
LuaItem(items, k) == IF k >= 1 /\ k <= Len(items) THEN items[k] ELSE NoIndex

\* one pass of `while true do ... end`: return i on a match, break (and
\* return -1) when i+1 == #items, else i = i + 1
LuaBody(items, arg, i) ==
  IF LuaItem(items, i + 1) = arg THEN [done |-> TRUE, ret |-> i, i |-> i]
  ELSE IF i + 1 = Len(items) THEN [done |-> TRUE, ret |-> -1, i |-> i]
  ELSE [done |-> FALSE, ret |-> NoIndex, i |-> LuaIncr(i)]

LuaStep(pr) ==
  /\ pc[pr] = "lua_loop"
  /\ LET b == LuaBody(queue, loc[pr].id, loc[pr].i)
     IN /\ Goto(pr, IF b.done THEN "idle" ELSE "lua_loop")
        /\ loc' = [loc EXCEPT ![pr].i = b.i, ![pr].ret = b.ret,
                              ![pr].intx = ~b.done,
                              ![pr].outcome = IF b.done THEN "ok" ELSE @]
  /\ UNCHANGED <<queue, rec, last, ncalls, tools>>

NextLua ==
  \/ \E pr \in Procs, arg \in LuaArgs : LuaStart(pr, arg)
  \/ \E pr \in Procs : LuaStep(pr)

SpecLua == InitLua /\ [][NextLua]_vars

\* the server goes on with a script it has started
SpecLuaFair == SpecLua /\ \A pr \in Procs : WF_vars(LuaStep(pr))

(***************************************************************************)
(* The migration runner (src/migrate.py).  A run is a process of its own;  *)
(* runs follow one another, and a run can be killed at any point.          *)
(***************************************************************************)
NumMigrations == 2
MaxRuns == 3

\* sorted(migration files): the timestamps of the file names, ascending
MigrationFiles == [k \in 1..NumMigrations |-> k]

\* a run starts: `latest_migration_timestamp = int(conn.get(...) or 0)`
MigrateStart(pr) ==
  /\ \A o \in Procs : pc[o] = "idle"
  /\ ncalls < MaxRuns
  /\ ncalls' = ncalls + 1
  /\ Goto(pr, "migrate_loop")
  /\ loc' = [loc EXCEPT ![pr] = [NoLoc EXCEPT !.op = "migrate", !.i = 0,
                                              !.latest = latest_migration_timestamp]]
  /\ UNCHANGED <<queue, rec, last, tools>>

\* the head of the loop: the run ends after the last file; a file whose
\* timestamp is not greater than the value read at the start is skipped
MigrateNext(pr) ==
  /\ pc[pr] = "migrate_loop"
  /\ IF loc[pr].i >= Len(MigrationFiles)
     THEN /\ Goto(pr, "idle")
          /\ loc' = [loc EXCEPT ![pr].outcome = "ok"]
     ELSE IF MigrationFiles[loc[pr].i + 1] <= loc[pr].latest
     THEN /\ Goto(pr, "migrate_loop")
          /\ loc' = [loc EXCEPT ![pr].i = @ + 1]
     ELSE /\ Goto(pr, "migrate_execute")
          /\ UNCHANGED loc
  /\ UNCHANGED <<queue, rec, last, ncalls, tools>>

\* `module.run(conn, pipe)`, `pipe.execute()`: the migration is applied
MigrateExecute(pr) ==
  /\ pc[pr] = "migrate_execute"
  /\ applied' = Append(applied, MigrationFiles[loc[pr].i + 1])
  /\ Goto(pr, "migrate_set")
  /\ UNCHANGED <<queue, rec, last, loc, ncalls, latest_migration_timestamp,
                 cmd_data, cmd_default>>

\* `conn.set('latest_migration_timestamp', str(timestamp))`
MigrateSet(pr) ==
  /\ pc[pr] = "migrate_set"
  /\ latest_migration_timestamp' = MigrationFiles[loc[pr].i + 1]
  /\ Goto(pr, "migrate_loop")
  /\ loc' = [loc EXCEPT ![pr].i = @ + 1]
  /\ UNCHANGED <<queue, rec, last, ncalls, applied, cmd_data, cmd_default>>

\* the run is killed
MigrateInterrupt(pr) ==
  /\ pc[pr] \in {"migrate_loop", "migrate_execute", "migrate_set"}
  /\ Goto(pr, "idle")
  /\ loc' = [loc EXCEPT ![pr].outcome = "interrupted"]
  /\ UNCHANGED <<queue, rec, last, ncalls, tools>>

NextMigrate ==
  \E pr \in Procs :
    \/ MigrateStart(pr)
    \/ MigrateNext(pr)
    \/ MigrateExecute(pr)
    \/ MigrateSet(pr)
    \/ MigrateInterrupt(pr)

SpecMigrate == Init /\ [][NextMigrate]_vars

(***************************************************************************)
(* The command registry (src/qaueue/command.py): Commands.add, called by   *)
(* the qaueue_command decorator when a module is loaded.  The call is kept *)
(* in `last`: the function in id, the command in ret, `default` in force.  *)
(***************************************************************************)
\* what Commands.add ends with
CommandsAddOutcome(command, default) ==
  IF cmd_data[command] # NoFunc THEN "DuplicateCommandError"
  ELSE IF cmd_default # None /\ default THEN "DuplicateDefaultCommandError"
  ELSE "ok"

\* mutant: add without the test `if command in cls._data`
CommandsAdd_NoDuplicateTest(command, func, default) ==
  /\ Idle
  /\ LET outcome == IF cmd_default # None /\ default
                    THEN "DuplicateDefaultCommandError" ELSE "ok"
     IN /\ cmd_data' = IF outcome = "ok" THEN [cmd_data EXCEPT ![command] = func]
                       ELSE cmd_data
        /\ cmd_default' = IF outcome = "ok" /\ default THEN command ELSE cmd_default
        /\ last' = [NoCall EXCEPT !.op = "commands_add", !.id = func, !.ret = command,
                                  !.force = default, !.outcome = outcome]
  /\ UNCHANGED <<queue, rec, pc, loc, ncalls, latest_migration_timestamp, applied>>

\* Commands.add(command, func, default)
CommandsAdd(command, func, default) ==
  /\ Idle
  /\ LET outcome == CommandsAddOutcome(command, default)
     IN /\ cmd_data' = IF outcome = "ok" THEN [cmd_data EXCEPT ![command] = func]
                       ELSE cmd_data
        /\ cmd_default' = IF outcome = "ok" /\ default THEN command ELSE cmd_default
        /\ last' = [NoCall EXCEPT !.op = "commands_add", !.id = func, !.ret = command,
                                  !.force = default, !.outcome = outcome]
  /\ UNCHANGED <<queue, rec, pc, loc, ncalls, latest_migration_timestamp, applied>>

NextCommands ==
  \/ \E command \in CommandNames, func \in Funcs, default \in BOOLEAN :
       CommandsAdd(command, func, default)
  \/ Return

SpecCommands == Init /\ [][NextCommands]_vars

(***************************************************************************)
(* Properties                                                              *)
(***************************************************************************)
Member(q, id) == ItemPriority(q, id) # NoIndex

Count(q, id) == Cardinality({k \in 1..Len(q) : q[k] = id})

\* the call `last` is a prioritize that went through, of an item that was
\* in the queue when it was called
MovedMember ==
  /\ last.op = "prioritize"
  /\ last.outcome = "ok"
  /\ Member(last.preq, last.id)

\* C1: after any sequence of db-layer calls run one at a time, no item_id
\* occurs twice in the queue list
C1_QueueUnique ==
  \A j, k \in 1..Len(queue) : j # k => queue[j] # queue[k]

C1_Witness ==
  /\ last.op = "add_to_queue"
  /\ Member(last.preq, last.id)
  /\ Len(queue) = NumItems

\* C2: a second create with the same content key fails with the
\* duplicate-item error and leaves the queue and the existing record
\* (its status included) as they were
C2_DuplicateCreateRejected ==
  (last.op = "create" /\ last.prerec.present)
    => /\ last.outcome = "ItemAlreadyExistsError"
       /\ queue = last.preq
       /\ rec[last.id] = last.prerec

\* C3: with the store commands of concurrent Item.create calls interleaved
\* in any order, the queue never holds an item_id more than once
C3_ConcurrentCreateUnique ==
  \A id \in ConcItems : Count(queue, id) <= 1

\* C4: a create of a new item (no record, not in the queue) appends it at
\* the tail: its priority is the previous queue length and the entries
\* that were there keep their places; so creating 1, 2, 3 on the empty
\* store gives <<1, 2, 3>>
C4_CreateAppends ==
  (last.op = "create" /\ ~last.prerec.present /\ ~Member(last.preq, last.id))
    => /\ last.outcome = "ok"
       /\ queue = last.preq \o <<last.id>>
       /\ ItemPriority(queue, last.id) = Len(last.preq)

C4_Witness ==
  /\ last.op = "create"
  /\ last.preq = <<1, 2>>
  /\ queue = <<1, 2, 3>>
  /\ ItemPriority(queue, 1) = 0 /\ ItemPriority(queue, 2) = 1 /\ ItemPriority(queue, 3) = 2

\* C5: after a prioritize of a member item to a target index p, 0 <= p < n,
\* that went through, the item's index in the queue is p
C5_PriorityIsTarget ==
  (MovedMember /\ last.p >= 0 /\ last.p < Len(last.preq))
    => ItemPriority(queue, last.id) = last.p

\* C6: a prioritize of a member item to index 0 makes it the first entry
\* and keeps the other entries in their order (of four items, moving the
\* one at index 2 gives the order 2, 0, 1, 3)
C6_MoveToFront ==
  (MovedMember /\ last.p = 0)
    => queue = <<last.id>> \o LRem(last.preq, last.id)

C6_Witness ==
  /\ MovedMember
  /\ last.p = 0
  /\ Len(last.preq) = 4
  /\ last.id = last.preq[3]
  /\ queue = <<last.preq[3], last.preq[1], last.preq[2], last.preq[4]>>

\* C7: a prioritize of a member item to index n-1 makes it the last entry
\* and keeps the other entries in their order (of four items, moving the
\* one at index 0 gives the order 1, 2, 3, 0), also for n = 1 and for the
\* item that is last already
C7_MoveToBack ==
  (MovedMember /\ last.p = Len(last.preq) - 1)
    => queue = LRem(last.preq, last.id) \o <<last.id>>

C7_Witness ==
  /\ MovedMember
  /\ last.p = 3
  /\ Len(last.preq) = 4
  /\ last.id = last.preq[1]
  /\ queue = <<last.preq[2], last.preq[3], last.preq[4], last.preq[1]>>

\* C8: of four pending items, moving the one at index 3 to index 1 gives
\* the order 0, 2, 3, 1 (by original index)
C8_LastToSecond ==
  (MovedMember /\ Len(last.preq) = 4 /\ last.id = last.preq[4] /\ last.p = 1)
    => queue = <<last.preq[1], last.preq[3], last.preq[4], last.preq[2]>>

\* C9: a prioritize of a pending member item to the index it has is a
\* no-op: it raises nothing and the queue keeps its order (every record
\* in the queue being one that Item.get can load)
C9_MoveToOwnIndex ==
  (/\ last.op = "prioritize"
   /\ last.hstatus = INITIAL
   /\ Member(last.preq, last.id)
   /\ last.p = ItemPriority(last.preq, last.id)
   /\ ~ItemsRaises(last.preq, rec))
    => (last.outcome = "ok" /\ queue = last.preq)

C9_Witness ==
  /\ MovedMember
  /\ Len(last.preq) = 3
  /\ last.id = last.preq[2]
  /\ last.p = 1
  /\ queue = last.preq

\* C10: a prioritize that passes the status test (the handle's status is
\* 'queued', or force) with a target index outside -n..n-1 (n itself,
\* -(n+1), any index when n = 0) fails with the out-of-range error and
\* leaves the queue as it was (every record in the queue being one that
\* Item.get can load)
C10_OutOfRangeRejected ==
  (/\ last.op = "prioritize"
   /\ (last.hstatus = INITIAL \/ last.force)
   /\ ~ItemsRaises(last.preq, rec)
   /\ (last.p > Len(last.preq) - 1 \/ last.p < -Len(last.preq)))
    => (last.outcome = "OutOfRangePriorityIndexError" /\ queue = last.preq)

C10_Witness ==
  /\ last.op = "prioritize"
  /\ last.outcome = "OutOfRangePriorityIndexError"
  /\ Len(last.preq) = 2
  /\ last.p = 2
  /\ Member(last.preq, last.id)

\* C11: a prioritize to a negative index -k, 1 <= k <= n, ends as the
\* prioritize of the same item to n - k does: the same outcome, and the
\* same queue
C11_NegativeWraps ==
  (last.op = "prioritize" /\ last.p < 0 /\ -last.p <= Len(last.preq))
    => LET n == Len(last.preq)
           outcome == PrioritizeOutcome(last.preq, rec, last.hstatus, n + last.p, last.force)
       IN /\ last.outcome = outcome
          /\ queue = IF outcome = "ok" THEN PrioritizeQueue(last.preq, last.id, n + last.p)
                      ELSE last.preq

C11_Witness ==
  /\ MovedMember
  /\ Len(last.preq) = 4
  /\ last.p = -3
  /\ last.id = last.preq[4]
  /\ queue # last.preq

\* C12: a prioritize without force of an item whose status in the store is
\* not 'queued' fails with the not-queued error and leaves the queue as it
\* was, whatever status the caller's handle carries
C12_StoreStatusTested ==
  (/\ last.op = "prioritize"
   /\ ~last.force
   /\ last.prerec.present
   /\ last.prerec.status # INITIAL)
    => (last.outcome = "InvalidItemStatusError" /\ queue = last.preq)

\* C16: after item.remove() the item has no record and its id is not in
\* the queue, whatever its status was and whether it was queued or not;
\* the other entries keep their order
C16_RemoveDeletes ==
  (last.op = "remove")
    => /\ ~Exists(rec, last.id)
       /\ ~Member(queue, last.id)
       /\ queue = LRem(last.preq, last.id)

C16_Witness ==
  /\ last.op = "remove"
  /\ last.prerec.status = COMPLETED
  /\ Len(last.preq) = 3
  /\ last.id = last.preq[2]
  /\ queue = <<last.preq[1], last.preq[3]>>

\* C15: the command that sets the status of an item that has a record to
\* 'released' takes the item off the queue in the same transaction, and
\* the record is still there afterwards, its status 'released'
C15_ReleaseDequeues ==
  (last.op = "set_item_status" /\ last.hstatus = COMPLETED /\ last.prerec.present)
    => /\ ~Member(queue, last.id)
       /\ Exists(rec, last.id)
       /\ rec[last.id].state = COMPLETED

C15_Witness ==
  /\ last.op = "set_item_status"
  /\ last.hstatus = COMPLETED
  /\ last.prerec.state = INITIAL
  /\ Len(last.preq) = 3
  /\ last.id = last.preq[2]
  /\ queue = <<last.preq[1], last.preq[3]>>
  /\ rec[last.id].state = COMPLETED

\* C17: after any sequence of add_item, set_item_status, prioritize_item
\* and remove_item commands run one at a time, every id in the queue has
\* a record
C17_NoDanglingEntry ==
  \A k \in 1..Len(queue) : Exists(rec, queue[k])

\* C20: a create or remove during which one store command failed leaves
\* the queue and the item's record as they were before the call
C20_FailureLeavesStore ==
  (last.outcome = "StoreError")
    => /\ queue = last.preq
       /\ rec[last.id] = last.prerec

\* no transaction is between two of its commands: the list is one that
\* the clients of the store can see
NoTransaction == \A o \in Procs : ~loc[o].intx

\* the locals of a handler without the history of the list kept with them
Locals(l) == [l EXCEPT !.snaps = {}]

\* a prioritize call of the handler has gone through, for an item that was
\* queued when it was called and that no handler has called remove on
MovedAndKept(pr) ==
  /\ NoTransaction
  /\ pc[pr] = "idle"
  /\ loc[pr].op = "prioritize"
  /\ loc[pr].outcome = "ok"
  /\ loc[pr].member0
  /\ \A o \in Procs : loc[pr].id \notin loc[o].removed

\* C13: after a prioritize that ran concurrently with other calls (remove
\* of other items, prioritize, add_to_queue) has gone through, the moved
\* item is in the queue exactly once, unless some call removed that item
C13_MovedItemKept ==
  \A pr \in Procs : MovedAndKept(pr) => Count(queue, loc[pr].id) = 1

\* C14: while the transaction of one prioritize call is between its
\* commands (the removal done, the re-insertion not), no handler that has
\* a call under way gets a store command executed: no other operation
\* writes or reads the queue in that state
C14_ReorderNotInterleaved ==
  [][\A pr \in Procs :
       loc[pr].intx
         => \A o \in Procs \ {pr} :
              pc[o] # "idle" => (pc'[o] = pc[o] /\ Locals(loc'[o]) = Locals(loc[o]))]_vars

C14_Witness ==
  \E pr \in Procs, o \in Procs :
    /\ o # pr
    /\ loc[pr].intx
    /\ loc[pr].member0
    /\ ~Member(queue, loc[pr].id)
    /\ loc[o].op = "items"
    /\ pc[o] = "items_lindex"

\* C18: once a remove call that ran concurrently with calls on other items
\* has returned, and no handler has called add_to_queue or prioritize on
\* the item, the queue does not hold the item's id
C18_RemoveLeavesNoEntry ==
  \A pr \in Procs :
    (/\ NoTransaction
     /\ pc[pr] = "idle"
     /\ loc[pr].op = "remove"
     /\ loc[pr].outcome = "ok"
     /\ \A o \in Procs : loc[pr].id \notin loc[o].placed)
      => ~Member(queue, loc[pr].id)

\* C19: the ids an items call has read are the content the queue had at
\* one instant of the call
C19_ItemsSnapshot ==
  \A pr \in Procs :
    (pc[pr] = "idle" /\ loc[pr].op = "items" /\ loc[pr].outcome = "ok")
      => loc[pr].seen \in loc[pr].snaps

\* C21: Item.create with a content key that is neither a Pivotal story URL
\* nor a GitHub pull-request URL fails with the unsupported-type error,
\* no record written and the queue as it was
C21_UnsupportedRejected ==
  (last.op = "create" /\ ~IsPivotalStoryUrl(UrlOf(last.id))
                      /\ ~IsPullRequestUrl(UrlOf(last.id)))
    => /\ last.outcome = "UnsupportedItemTypeError"
       /\ queue = last.preq
       /\ ~Exists(rec, last.id)
       /\ rec[last.id] = last.prerec

C21_Witness ==
  /\ last.op = "create"
  /\ last.outcome = "UnsupportedItemTypeError"
  /\ Len(queue) = 3

\* what a get of the call `last` matches no record of
NoMatchingRecord ==
  \/ last.op = "get_id" /\ ~last.prerec.present
  \/ last.op = "get_url" /\ ~last.prerec.present
  \/ last.op = "get_index" /\ (last.reti = NoIndex \/ ~last.prerec.present)

\* C22: Item.get returns None and raises nothing whenever no record
\* matches: an id without a record, a URL whose id has no record (a URL of
\* unsupported shape included), an index outside the queue
C22_GetAbsentIsNone ==
  NoMatchingRecord => (last.outcome = "ok" /\ last.ret = None)

\* C23: item.update() stores the attributes of the handle that are not
\* None, a status that is None leaving the stored one, and leaves the
\* queue as it was
C23_UpdateKeepsQueue ==
  (last.op = "update")
    => /\ last.outcome = "ok"
       /\ queue = last.preq
       /\ Exists(rec, last.id)
       /\ rec[last.id].url
       /\ rec[last.id].status = IF last.hstatus # None THEN last.hstatus
                                ELSE last.prerec.status

C23_Witness ==
  /\ last.op = "update"
  /\ last.hstatus = None
  /\ last.prerec.status = COMPLETED
  /\ rec[last.id].status = COMPLETED
  /\ Len(queue) = 3
  /\ Member(queue, last.id)

\* C25: an update of an item that has no record is reported as not found
\* and creates no record
C25_UpdateAbsentRejected ==
  (last.op = "update" /\ ~last.prerec.present)
    => (last.outcome # "ok" /\ ~Exists(rec, last.id))

\* C27: add_to_queue of an item that is queued returns the index it has and
\* leaves the queue as it was; of an item that is not, it appends the item
\* and returns the previous length
C27_AddReturnsIndex ==
  (last.op = "add_to_queue")
    => IF Member(last.preq, last.id)
       THEN last.reti = ItemPriority(last.preq, last.id) /\ queue = last.preq
       ELSE last.reti = Len(last.preq) /\ queue = last.preq \o <<last.id>>

\* C29: a create of an item that had no record, with the default status,
\* returns with the stored status 'queued' and the item in the queue
C29_CreatedIsQueued ==
  (last.op = "create" /\ ~last.prerec.present /\ last.hstatus = INITIAL)
    => /\ rec[last.id].status = INITIAL
       /\ Member(queue, last.id)

C29_Witness ==
  /\ last.op = "create"
  /\ ~last.prerec.present
  /\ last.hstatus = INITIAL
  /\ Len(last.preq) = 2
  /\ Member(queue, last.id)

\* C24: the remove command on an identifier that has no record answers
\* 'Item does not exist' and changes neither the queue nor any record
C24_RemoveAbsentRejected ==
  [][(last.op = "none" /\ last'.op = "remove_item" /\ ~Exists(rec, last'.id))
       => (/\ last'.outcome = "Item does not exist"
           /\ queue' = queue
           /\ rec' = rec)]_vars

\* the rejected remove named an identifier that is still an entry of the queue
C24_Witness ==
  /\ last.op = "remove_item"
  /\ ~last.prerec.present
  /\ last.outcome = "Item does not exist"
  /\ Member(last.preq, last.id)
  /\ queue = last.preq

\* C30: the status command that moves an item to 'released' stores
\* released_at in the same operation, and no item whose state is 'queued'
\* carries released_at
C30_ReleaseStampsTime ==
  /\ (last.op = "set_item_status" /\ last.hstatus = COMPLETED /\ last.prerec.present)
       => rec[last.id].released_at
  /\ \A id \in AllItems :
       (rec[id].present /\ rec[id].state = INITIAL) => ~rec[id].released_at

\* C26: of the add commands for one content key that run concurrently at
\* most one returns without an error (a success is returned only by a call
\* whose EXISTS found no record, and no command of SpecAdds deletes a record,
\* so two successes for one id are those of overlapping calls)
C26_OneAddSucceeds ==
  \A p1, p2 \in Procs :
    (/\ p1 # p2
     /\ loc[p1].op = "add_item" /\ loc[p2].op = "add_item"
     /\ loc[p1].id = loc[p2].id)
      => ~(loc[p1].outcome = "ok" /\ loc[p2].outcome = "ok")

\* C28: remove_from_queue deletes every occurrence of the id from the queue
\* (none when it is absent), keeps the other entries in their order and
\* changes no record
C28_RemoveFromQueueAll ==
  [][(last.op = "none" /\ last'.op = "remove_from_queue")
       => (/\ \A k \in 1..Len(queue') : queue'[k] # last'.id
           /\ queue' = SelectSeq(queue, LAMBDA x : x # last'.id)
           /\ rec' = rec)]_vars

\* a remove_from_queue of an id that was in the queue twice, next to another
\* entry that stays
C28_Witness ==
  /\ last.op = "remove_from_queue"
  /\ Count(last.preq, last.id) >= 2
  /\ Len(queue) >= 1
  /\ Len(queue) = Len(last.preq) - Count(last.preq, last.id)

MovedToMiddle ==
  /\ MovedMember
  /\ Normalize(last.p, Len(last.preq)) > 0
  /\ Normalize(last.p, Len(last.preq)) < Len(last.preq) - 1

\* the entry at the normalized target index before the call
TargetEntry == last.preq[Normalize(last.p, Len(last.preq)) + 1]

C33_IndexInverse ==
  /\ \A i \in 0..(Len(queue) - 1) :
       /\ Loadable(rec, LIndex(queue, i))
       /\ Index(queue, rec, i) # NoIndex
       /\ ItemPriority(queue, Index(queue, rec, i)) = i
  /\ \A x \in AllItems :
       Member(queue, x) =>
         /\ Loadable(rec, x)
         /\ Index(queue, rec, ItemPriority(queue, x)) = x

\* C34: a call that puts an id into the queue list that was not in it
\* leaves the id's record present with the status 'queued'
C34_EntersWithPendingRecord ==
  [][\A id \in AllItems :
       (~Member(queue, id) /\ Member(queue', id))
         => (Exists(rec', id) /\ rec'[id].status = INITIAL)]_vars

\* C35: a prioritize of a member item that went through only permutes the
\* queue: every id is in the list as often as before, and the items other
\* than the moved one keep their order
C35_PrioritizePermutes ==
  MovedMember =>
    /\ \A x \in AllItems : Count(queue, x) = Count(last.preq, x)
    /\ SelectSeq(queue, LAMBDA x : x # last.id)
         = SelectSeq(last.preq, LAMBDA x : x # last.id)

\* the last of four items was moved to another place
C35_Witness ==
  /\ MovedMember
  /\ Len(last.preq) = 4
  /\ ItemPriority(last.preq, last.id) = 3
  /\ queue # last.preq
  /\ Len(queue) = 4

\* C36: a prioritize of an item that is not in the queue, whatever the
\* handle's status and with or without force, leaves the queue list as it
\* was
C36_NonMemberNotInserted ==
  (last.op = "prioritize" /\ ~Member(last.preq, last.id)) => queue = last.preq

\* C37: the assertion of add_to_queue holds whenever it is evaluated: of
\* the replies of its transaction the last length is the first plus one,
\* however the commands of concurrent add_to_queue, remove and prioritize
\* calls are interleaved
C37_AssertHolds ==
  \A pr \in MoveProcs :
    /\ loc[pr].outcome # "AssertionError"
    /\ (loc[pr].op = "add_to_queue" /\ Len(loc[pr].res) = 4)
         => loc[pr].res[1] = loc[pr].res[4] - 1

\* a transaction of add_to_queue has ended on a list that another handler
\* changed between the scan for the id and the transaction, while another
\* handler is in the middle of its call
C37_Witness ==
  \E pr, o \in MoveProcs :
    /\ pr # o
    /\ loc[pr].op = "add_to_queue"
    /\ Len(loc[pr].res) = 4
    /\ pc[pr] = "priority_llen"
    /\ loc[pr].res[1] # loc[pr].qlen
    /\ pc[o] # "idle"

\* C38: the get_item_index script, once started, comes to an end for every
\* list, the empty one included, and returns the index of the first entry
\* equal to its argument, or -1 when there is none
C38_ScriptTerminates ==
  \A pr \in Procs :
    (pc[pr] = "lua_loop")
      ~> (pc[pr] = "idle" /\ loc[pr].ret = FirstIndexOf(queue, loc[pr].id))

\* C39: over any number of runs of the migration runner, interrupted runs
\* included, no migration is applied twice, the migrations are applied in
\* ascending order of their timestamps, and a run applies no file whose
\* timestamp is not greater than the latest_migration_timestamp it read
C39_MigrationsOnce ==
  /\ \A j, k \in 1..Len(applied) : j < k => applied[j] < applied[k]
  /\ \A pr \in Procs :
       pc[pr] \in {"migrate_execute", "migrate_set"}
         => MigrationFiles[loc[pr].i + 1] > loc[pr].latest

\* C40: over any sequence of Commands.add calls a command keeps the first
\* function registered under it and the default, once set, stays the one
\* default (a registered command); an add goes through only for a command
\* that had no function, and a rejected add changes neither the map nor
\* the default
C40_FirstRegistrationKept ==
  [][(last.op = "none" /\ last'.op = "commands_add")
       => (/\ \A c \in CommandNames :
                cmd_data[c] # NoFunc => cmd_data'[c] = cmd_data[c]
           /\ cmd_default # None => cmd_default' = cmd_default
           /\ cmd_default' # None => cmd_data'[cmd_default'] # NoFunc
           /\ last'.outcome = "ok"
                => (cmd_data[last'.ret] = NoFunc /\ cmd_data'[last'.ret] = last'.id)
           /\ last'.outcome \in {"DuplicateCommandError", "DuplicateDefaultCommandError"}
                => (cmd_data' = cmd_data /\ cmd_default' = cmd_default)
           /\ last'.outcome \in {"ok", "DuplicateCommandError",
                                  "DuplicateDefaultCommandError"})]_vars

\* an add of another function under a registered command was rejected: the
\* map holds the first function, and a default is set
C40_Witness ==
  /\ last.op = "commands_add"
  /\ last.outcome = "DuplicateCommandError"
  /\ cmd_data[last.ret] # NoFunc
  /\ cmd_data[last.ret] # last.id
  /\ cmd_default # None

====
